---- MODULE Spec2Model ----
(***************************************************************************)
(* Station-name vertical crossword search: the positional index built by   *)
(* create_index.py (create_station_index) and the two search paths of      *)
(* station_search_gui.py (search_and_analyze, search_and_analyze_fast).     *)
(*                                                                         *)
(* A string is a sequence of characters; Python offsets are 0-based, so    *)
(* the character at Python offset p of s is s[p + 1].  A DataFrame is a    *)
(* sequence of rows, each carrying its index label idx (0-based).          *)
(***************************************************************************)
EXTENDS Integers, Sequences, FiniteSets, TLC

VARIABLES
    df,                          \* the corpus (station_name, pref_cd per row)
    idx,                         \* create_station_index: next row of df.iterrows()
    hiragana_index,              \* pos -> char -> list of row ids (folded names)
    katakana_index,              \* pos -> char -> list of row ids (names as written)
    pc,                          \* "build", "ready", "done" / "norm_in", "norm_out",
                                 \* "norm_twice" / "saved", "loaded", "data",
                                 \* "stopped", "crashed"
    search_string,               \* raw text of the search box
    include_katakana,            \* TRUE: katakana kept (preserved mode)
    selected_prefecture_codes,   \* the selected region codes
    normalized_search,           \* normalize_search_string(search_string, include_katakana)
    renormalized,                \* normalize_search_string(normalized_search, include_katakana)
    path,                        \* "none", "fast" (index path) or "scan"
    result_rows,                 \* the rows of the returned DataFrame
    outcome,                     \* "none", "returned" or "raised"
    files,                       \* the three files save_index_to_files writes
    loaded_hiragana_index,       \* main: hiragana_index of load_precomputed_index
    loaded_katakana_index,       \* main: katakana_index of load_precomputed_index
    indexed_df,                  \* main: the frame loaded with the indexes
    use_fast_search,             \* main: hiragana_index is not None
    uploaded_file,               \* main: the file of st.file_uploader, or None
    main_df                      \* main: df, the frame that is searched

\* the variables of main's start-up
mainvars == <<files, loaded_hiragana_index, loaded_katakana_index, indexed_df,
              use_fast_search, uploaded_file, main_df>>

vars == <<df, idx, hiragana_index, katakana_index, pc, search_string,
          include_katakana, selected_prefecture_codes, normalized_search,
          renormalized, path, result_rows, outcome, mainvars>>

(***************************************************************************)
(* Bounds of the model.                                                    *)
(***************************************************************************)
MaxRecords == 2      \* rows of the corpus
MaxQueryLen == 2     \* characters typed in the search box (main specification)
MaxPad == 21         \* longest run of one character in a normalizer input
MainRecords == 1     \* rows of the corpus (specification of main's start-up)
MainQueryLen == 1    \* characters typed (specification of main's start-up)

(***************************************************************************)
(* Characters.  One representative per class of the regular expressions of *)
(* normalize_search_string and of the table of jaconv.kata2hira.           *)
(***************************************************************************)
hi_a  == "hi_a"      \* U+3042 hiragana a, inside [ぁ-ん]
ka_a  == "ka_a"      \* U+30A2 katakana a, inside [ァ-ヾ], kata2hira gives hi_a
kanji == "kanji"     \* U+5927, inside [一-龯]
ka_ke == "ka_ke"     \* U+30F6 small katakana ke, inside [ァ-ヾ], kata2hira gives hi_ke
hi_ke == "hi_ke"     \* U+3096 small hiragana ke, outside [ぁ-ん]
ascii == "ascii"     \* U+0078, outside every permitted range

\* jaconv.kata2hira on one character
K2H(c) == CASE c = ka_a -> hi_a
            [] c = ka_ke -> hi_ke
            [] OTHER -> c

\* jaconv.kata2hira on a string: character by character, length kept
kata2hira(text) == [i \in 1..Len(text) |-> K2H(text[i])]

\* [ぁ-んー一-龯]
HiraganaKanji == {hi_a, kanji}
\* [ぁ-んァ-ヾー一-龯]
HiraganaKatakanaKanji == {hi_a, ka_a, ka_ke, kanji}

\* re.sub(r'[^...]', '', text): keeps the characters of the class, in order
re_sub_keep(class, text) == SelectSeq(text, LAMBDA c : c \in class)

MaxSearchLen == 20   \* text[:20]

\* text[:n]
Slice(text, n) == SubSeq(text, 1, IF Len(text) < n THEN Len(text) ELSE n)

\* a plausible slip: the slice taken before the filtering
normalize_slice_first(text, inc) ==
    IF text = <<>> THEN <<>>
    ELSE IF inc THEN re_sub_keep(HiraganaKatakanaKanji, Slice(text, MaxSearchLen))
    ELSE re_sub_keep(HiraganaKanji, kata2hira(Slice(text, MaxSearchLen)))

\* a plausible slip: folded mode filters with the wide class, then folds
normalize_filter_then_fold(text, inc) ==
    IF text = <<>> THEN <<>>
    ELSE IF inc THEN Slice(re_sub_keep(HiraganaKatakanaKanji, text), MaxSearchLen)
    ELSE Slice(kata2hira(re_sub_keep(HiraganaKatakanaKanji, text)), MaxSearchLen)

normalize_search_string(text, inc) ==
    IF text = <<>> THEN <<>>
    ELSE LET kept == IF inc THEN re_sub_keep(HiraganaKatakanaKanji, text)
                     ELSE re_sub_keep(HiraganaKanji, kata2hira(text))
         IN  Slice(kept, MaxSearchLen)

(***************************************************************************)
(* The corpus.                                                             *)
(***************************************************************************)
PosRange == 20       \* for pos in range(20)

Repeat(c, n) == [i \in 1..n |-> c]

\* a name one character longer than the offsets the search walks: small
\* katakana ke, kanji up to offset 18, hiragana a at the offsets 19 and 20
LongName == <<ka_ke>> \o Repeat(kanji, PosRange - 2) \o <<hi_a, hi_a>>

StationNames == { <<hi_a, ka_a>>, <<ka_a, hi_a>>, LongName }

PrefCodes == {13, 27}

\* the frames of at most MaxRecords rows, labelled 0 .. n-1 as pd.read_csv does
Corpora ==
    UNION { { [i \in 1..n |-> [idx |-> i - 1,
                              station_name |-> names[i],
                              pref_cd |-> prefs[i]]] :
              names \in [1..n -> StationNames], prefs \in [1..n -> PrefCodes] } :
            n \in 0..MaxRecords }

(***************************************************************************)
(* create_station_index                                                    *)
(***************************************************************************)
EmptyIndex == [p \in {} |-> [c \in {} |-> <<>>]]

\* index[pos][char].append(idx) on a defaultdict of defaultdict(list)
IndexAppend(index, pos, char, id) ==
    LET chars  == IF pos \in DOMAIN index THEN index[pos] ELSE [c \in {} |-> <<>>]
        bucket == IF char \in DOMAIN chars THEN chars[char] ELSE <<>>
        chars2 == [c \in (DOMAIN chars) \cup {char} |->
                      IF c = char THEN Append(bucket, id) ELSE chars[c]]
    IN  [p \in (DOMAIN index) \cup {pos} |-> IF p = pos THEN chars2 ELSE index[p]]

\* for pos, char in enumerate(name): index[pos][char].append(idx)
RECURSIVE EnumerateInto(_, _, _, _)
EnumerateInto(index, name, pos, id) ==
    IF pos >= Len(name) THEN index
    ELSE EnumerateInto(IndexAppend(index, pos, name[pos + 1], id), name, pos + 1, id)

\* a plausible slip: the folded index filled from the name as written
hiragana_name_unfolded(station_name) == station_name

\* a plausible slip: the name put through the filter of the search box
hiragana_name_stripped(station_name) ==
    re_sub_keep(HiraganaKanji, kata2hira(station_name))

\* hiragana_name = jaconv.kata2hira(station_name)
hiragana_name(station_name) == kata2hira(station_name)

(***************************************************************************)
(* Helpers for Python lists                                                *)
(***************************************************************************)
RECURSIVE Flatten(_)
\* the concatenation of a list of lists, as nested for loops append
Flatten(lists) == IF lists = <<>> THEN <<>> ELSE Head(lists) \o Flatten(Tail(lists))

Reverse(s) == [i \in 1..Len(s) |-> s[Len(s) + 1 - i]]

\* a station dict: the row, the character found on the record, and the pass
\* of the search that produced it ("selected", "all" or "index")
StationDict(row, actual_char, from_pass) ==
    [idx |-> row.idx, station_name |-> row.station_name, pref_cd |-> row.pref_cd,
     actual_char |-> actual_char, from_pass |-> from_pass]

(***************************************************************************)
(* The scan path: find_all_chars_at_position,                              *)
(* find_character_positions_cross_with_priority, search_and_analyze        *)
(***************************************************************************)
\* a plausible slip: the comparison folds in both modes
find_all_chars_always_folded(frame, char, position, inc, from_pass) ==
    LET Hit(row) == /\ position < Len(row.station_name)
                    /\ K2H(row.station_name[position + 1]) = K2H(char)
        hits == SelectSeq(frame, Hit)
    IN  [k \in 1..Len(hits) |->
            StationDict(hits[k], hits[k].station_name[position + 1], from_pass)]

find_all_chars_at_position(frame, char, position, inc, from_pass) ==
    LET \* search_target[position]; kata2hira converts character by character
        \* and keeps the length, so the folded name is read at one offset only
        search_target_at(row) == IF inc THEN row.station_name[position + 1]
                                 ELSE K2H(row.station_name[position + 1])
        search_char_normalized == IF inc THEN char ELSE K2H(char)
        Hit(row) == /\ position < Len(row.station_name)
                    /\ search_target_at(row) = search_char_normalized
        hits == SelectSeq(frame, Hit)
        actual(row) == IF position < Len(row.station_name)
                       THEN row.station_name[position + 1] ELSE char
    IN  [k \in 1..Len(hits) |-> StationDict(hits[k], actual(hits[k]), from_pass)]

\* the identity key of the second pass: (station_name, pref_cd)
station_key(s) == <<s.station_name, s.pref_cd>>

\* a plausible slip: the whole corpus is searched only when the selection has no match
char_stations_fallback_if_none(df_all, df_selected, char, pos, inc) ==
    LET selected_stations ==
            IF df_selected # <<>>
            THEN find_all_chars_at_position(df_selected, char, pos, inc, "selected")
            ELSE <<>>
    IN  IF selected_stations # <<>> THEN selected_stations
        ELSE find_all_chars_at_position(df_all, char, pos, inc, "all")

\* a plausible slip: existing_keys also grows with every station appended
char_stations_keys_updated(df_all, df_selected, char, pos, inc) ==
    LET selected_stations ==
            IF df_selected # <<>>
            THEN find_all_chars_at_position(df_selected, char, pos, inc, "selected")
            ELSE <<>>
        all_stations == find_all_chars_at_position(df_all, char, pos, inc, "all")
        existing_keys == { station_key(selected_stations[i]) :
                             i \in DOMAIN selected_stations }
        appended(i) ==
            /\ station_key(all_stations[i]) \notin existing_keys
            /\ \A j \in 1..(i - 1) :
                  station_key(all_stations[j]) # station_key(all_stations[i])
    IN  selected_stations \o
        Flatten([i \in 1..Len(all_stations) |->
                    IF appended(i) THEN <<all_stations[i]>> ELSE <<>>])

\* char_stations of one query character at one position
char_stations_with_priority(df_all, df_selected, char, pos, inc) ==
    LET selected_stations ==
            IF df_selected # <<>>
            THEN find_all_chars_at_position(df_selected, char, pos, inc, "selected")
            ELSE <<>>
        all_stations == find_all_chars_at_position(df_all, char, pos, inc, "all")
        existing_keys == { station_key(selected_stations[i]) :
                             i \in DOMAIN selected_stations }
    IN  selected_stations \o
        SelectSeq(all_stations, LAMBDA s : station_key(s) \notin existing_keys)

\* for char_index, char in enumerate(search_string): ... else: break
RECURSIVE cross_char_loop(_, _, _, _, _, _)
cross_char_loop(df_all, df_selected, search, inc, pos, char_index) ==
    IF char_index >= Len(search)
    THEN [all_chars_found |-> TRUE, all_matching_stations |-> <<>>]
    ELSE LET char == search[char_index + 1]
             char_stations ==
                 char_stations_with_priority(df_all, df_selected, char, pos, inc)
         IN  IF char_stations # <<>>
             THEN LET rest == cross_char_loop(df_all, df_selected, search, inc,
                                              pos, char_index + 1)
                  IN  [all_chars_found |-> rest.all_chars_found,
                       all_matching_stations |->
                           <<[char |-> char, stations |-> char_stations]>>
                           \o rest.all_matching_stations]
             ELSE [all_chars_found |-> FALSE, all_matching_stations |-> <<>>]

\* a plausible slip: a position is kept as soon as one character matched
position_accepted_partial(found, search) ==
    Len(found.all_matching_stations) > 0

\* if all_chars_found and len(all_matching_stations) == len(search_string)
position_accepted(found, search) ==
    found.all_chars_found /\ Len(found.all_matching_stations) = Len(search)

\* for pos in range(20)
RECURSIVE cross_pos_loop(_, _, _, _, _)
cross_pos_loop(df_all, df_selected, search, inc, pos) ==
    IF pos >= PosRange THEN <<>>
    ELSE LET found == cross_char_loop(df_all, df_selected, search, inc, pos, 0)
         IN  (IF position_accepted(found, search)
              THEN <<[position |-> pos,
                      matching_stations |-> found.all_matching_stations]>>
              ELSE <<>>)
             \o cross_pos_loop(df_all, df_selected, search, inc, pos + 1)

\* a plausible slip: the walk stops at the first position that works,
\* as find_character_positions_cross does
cross_first_position_only(df_all, df_selected, search, inc) ==
    LET all_position_results == cross_pos_loop(df_all, df_selected, search, inc, 0)
        first == IF all_position_results = <<>> THEN <<>>
                 ELSE <<Head(all_position_results)>>
    IN  [cross_possible |-> first # <<>>, all_positions |-> first]

find_character_positions_cross_with_priority(df_all, df_selected, search, inc) ==
    IF search = <<>> THEN [cross_possible |-> FALSE, all_positions |-> <<>>]
    ELSE LET all_position_results ==
                 cross_pos_loop(df_all, df_selected, search, inc, 0)
         IN  [cross_possible |-> all_position_results # <<>>,
              all_positions |-> all_position_results]

\* a plausible slip: every row is tagged by the selection alone
search_scope_by_selection(station_pref_cd, codes) ==
    IF codes # {} THEN "selected_region" ELSE "nationwide"

\* if selected_prefecture_codes and station_pref_cd in selected_prefecture_codes
search_scope(station_pref_cd, codes) ==
    IF codes # {} /\ station_pref_cd \in codes
    THEN "selected_region" ELSE "nationwide"

\* one row of the result; idx, char_index and from_pass are bookkeeping of the
\* model: the record, the query character and the pass the row was made for
ResultRow(station_data, display_char, position, char_index, codes) ==
    [station_name |-> station_data.station_name,
     prefecture |-> station_data.pref_cd,
     search_char |-> display_char,
     char_position |-> position + 1,
     search_scope |-> search_scope(station_data.pref_cd, codes),
     idx |-> station_data.idx,
     char_index |-> char_index,
     from_pass |-> station_data.from_pass]

\* for char_index, (char, stations_list) in enumerate(matching_stations):
\*     for station_data in stations_list: result_rows.append(...)
scan_rows_at(position_result, codes) ==
    LET matching_stations == position_result.matching_stations
    IN  Flatten([ci \in 1..Len(matching_stations) |->
            [k \in 1..Len(matching_stations[ci].stations) |->
                ResultRow(matching_stations[ci].stations[k],
                          matching_stations[ci].stations[k].actual_char,
                          position_result.position, ci - 1, codes)]])

search_and_analyze(frame, text, codes, inc) ==
    IF frame = <<>> THEN <<>>
    ELSE LET normalized == normalize_search_string(text, inc)
         IN  IF normalized = <<>> THEN <<>>
             ELSE LET df_selected ==
                          IF codes # {}
                          THEN SelectSeq(frame, LAMBDA row : row.pref_cd \in codes)
                          ELSE <<>>
                      cross_info == find_character_positions_cross_with_priority(
                                        frame, df_selected, normalized, inc)
                  IN  IF cross_info.cross_possible /\ cross_info.all_positions # <<>>
                      THEN Flatten([n \in 1..Len(cross_info.all_positions) |->
                               scan_rows_at(cross_info.all_positions[n], codes)])
                      ELSE <<>>

(***************************************************************************)
(* The index path: find_stations_by_index, search_and_analyze_fast         *)
(***************************************************************************)
find_stations_by_index(station_index, char, position, frame) ==
    IF \/ position \notin DOMAIN station_index
       \/ char \notin DOMAIN station_index[position]
    THEN <<>>
    ELSE LET station_indices == station_index[position][char]
             Keep(id) ==
                 /\ id < Len(frame)
                 /\ position < Len(frame[id + 1].station_name)
                 /\ K2H(frame[id + 1].station_name[position + 1]) = K2H(char)
             kept == SelectSeq(station_indices, Keep)
         IN  [k \in 1..Len(kept) |->
                 StationDict(frame[kept[k] + 1],
                             frame[kept[k] + 1].station_name[position + 1], "index")]

\* for char_index, char in enumerate(normalized_search): ... break
RECURSIVE fast_char_loop(_, _, _, _, _, _)
fast_char_loop(station_index, normalized, inc, pos, frame, char_index) ==
    IF char_index >= Len(normalized) THEN <<>>
    ELSE LET char == normalized[char_index + 1]
             search_char == IF inc THEN char ELSE K2H(char)
             char_stations == find_stations_by_index(station_index, search_char,
                                                     pos, frame)
         IN  IF char_stations = <<>> THEN <<>>
             ELSE <<char_stations>>
                  \o fast_char_loop(station_index, normalized, inc, pos, frame,
                                    char_index + 1)

\* a plausible slip: a position is kept as soon as one character matched
fast_accepted_partial(char_station_lists, normalized) ==
    Len(char_station_lists) > 0

\* if len(char_station_lists) == len(normalized_search)
fast_accepted(char_station_lists, normalized) ==
    Len(char_station_lists) = Len(normalized)

\* a plausible slip: the characters of one position emitted last to first
fast_rows_at_reversed(char_station_lists, normalized, pos, codes) ==
    Flatten(Reverse([ci \in 1..Len(char_station_lists) |->
        [k \in 1..Len(char_station_lists[ci]) |->
            ResultRow(char_station_lists[ci][k],
                      char_station_lists[ci][k].actual_char, pos, ci - 1, codes)]]))

\* for char_index, stations_for_char in enumerate(char_station_lists):
\*     for station_data in stations_for_char: result_rows.append(...)
fast_rows_at(char_station_lists, normalized, pos, codes) ==
    Flatten([ci \in 1..Len(char_station_lists) |->
        [k \in 1..Len(char_station_lists[ci]) |->
            LET station_data == char_station_lists[ci][k]
                station_name == station_data.station_name
                actual_char == IF pos < Len(station_name) THEN station_name[pos + 1]
                               ELSE normalized[ci]
            IN  ResultRow(station_data, actual_char, pos, ci - 1, codes)]])

\* for pos in range(20)
RECURSIVE fast_pos_loop(_, _, _, _, _, _)
fast_pos_loop(station_index, normalized, inc, frame, codes, pos) ==
    IF pos >= PosRange THEN <<>>
    ELSE LET char_station_lists ==
                 fast_char_loop(station_index, normalized, inc, pos, frame, 0)
         IN  (IF fast_accepted(char_station_lists, normalized)
              THEN fast_rows_at(char_station_lists, normalized, pos, codes)
              ELSE <<>>)
             \o fast_pos_loop(station_index, normalized, inc, frame, codes, pos + 1)

\* a plausible slip: the condition of the index choice turned round
select_index_swapped(hira_index, kata_index, inc) ==
    IF inc THEN hira_index ELSE kata_index

\* station_index = katakana_index if include_katakana else hiragana_index
select_index(hira_index, kata_index, inc) ==
    IF inc THEN kata_index ELSE hira_index

search_and_analyze_fast(frame, text, codes, hira_index, kata_index, inc) ==
    IF frame = <<>> THEN <<>>
    ELSE LET normalized == normalize_search_string(text, inc)
         IN  IF normalized = <<>> THEN <<>>
             ELSE LET station_index == select_index(hira_index, kata_index, inc)
                  IN  fast_pos_loop(station_index, normalized, inc, frame, codes, 0)

(***************************************************************************)
(* The inputs of a search                                                  *)
(***************************************************************************)
\* what the user can type, one representative per character class
QueryChars == {hi_a, ka_a, ka_ke}

SearchStrings == UNION { [1..n -> QueryChars] : n \in 0..MaxQueryLen }

\* get_selected_prefecture_codes: nothing, one prefecture, or a region holding both
Selections == { {}, {13}, {13, 27} }

\* None, and a value that is not None
None == <<>>
Some(x) == <<x>>

\* no file written yet, main not started
hiragana_file == "station_hiragana_index.json"
katakana_file == "station_katakana_index.json"
data_file == "station_data_indexed.csv"

NoFiles ==
    [f \in {hiragana_file, katakana_file, data_file} |->
        [state |-> "absent", content |-> <<>>]]

MainNotStarted ==
    /\ files = NoFiles
    /\ loaded_hiragana_index = None
    /\ loaded_katakana_index = None
    /\ indexed_df = None
    /\ use_fast_search = FALSE
    /\ uploaded_file = None
    /\ main_df = <<>>

Init ==
    /\ df \in Corpora
    /\ idx = 0
    /\ hiragana_index = EmptyIndex
    /\ katakana_index = EmptyIndex
    /\ pc = "build"
    /\ search_string = <<>>
    /\ include_katakana = FALSE
    /\ selected_prefecture_codes = {}
    /\ normalized_search = <<>>
    /\ renormalized = <<>>
    /\ path = "none"
    /\ result_rows = <<>>
    /\ outcome = "none"
    /\ MainNotStarted

\* one iteration of "for idx, row in df.iterrows()"
IndexRecord ==
    /\ pc = "build"
    /\ idx < Len(df)
    /\ LET station_name == df[idx + 1].station_name
       IN  /\ hiragana_index' =
                 EnumerateInto(hiragana_index, hiragana_name(station_name), 0, idx)
           /\ katakana_index' = EnumerateInto(katakana_index, station_name, 0, idx)
    /\ idx' = idx + 1
    /\ UNCHANGED <<df, pc, search_string, include_katakana,
                   selected_prefecture_codes, normalized_search,
                   renormalized, path, result_rows, outcome, mainvars>>

\* the loop is over: the dictionaries are returned
FinishIndex ==
    /\ pc = "build"
    /\ idx = Len(df)
    /\ pc' = "ready"
    /\ UNCHANGED <<df, idx, hiragana_index, katakana_index, search_string,
                   include_katakana, selected_prefecture_codes,
                   normalized_search, renormalized, path, result_rows,
                   outcome, mainvars>>

\* main: the index files were loaded and no file was uploaded
SearchFast ==
    /\ pc = "ready"
    /\ \E text \in SearchStrings, codes \in Selections, inc \in BOOLEAN :
          /\ search_string' = text
          /\ selected_prefecture_codes' = codes
          /\ include_katakana' = inc
          /\ normalized_search' = normalize_search_string(text, inc)
          /\ result_rows' = search_and_analyze_fast(df, text, codes, hiragana_index,
                                                    katakana_index, inc)
    /\ path' = "fast"
    /\ outcome' = "returned"
    /\ pc' = "done"
    /\ UNCHANGED <<df, idx, hiragana_index, katakana_index, renormalized,
                   mainvars>>

\* main: the corpus is scanned
SearchScan ==
    /\ pc = "ready"
    /\ \E text \in SearchStrings, codes \in Selections, inc \in BOOLEAN :
          /\ search_string' = text
          /\ selected_prefecture_codes' = codes
          /\ include_katakana' = inc
          /\ normalized_search' = normalize_search_string(text, inc)
          /\ result_rows' = search_and_analyze(df, text, codes, inc)
    /\ path' = "scan"
    /\ outcome' = "returned"
    /\ pc' = "done"
    /\ UNCHANGED <<df, idx, hiragana_index, katakana_index, renormalized,
                   mainvars>>

Next == IndexRecord \/ FinishIndex \/ SearchFast \/ SearchScan

Spec == Init /\ [][Next]_vars

(***************************************************************************)
(* normalize_search_string on its own, over inputs longer than the cap     *)
(***************************************************************************)
RawChars == {hi_a, ka_a, kanji, ka_ke, ascii}

\* at most one leading character, then a run of one character
NormInputs ==
    { head \o Repeat(c, n) :
        head \in {<<>>} \cup { <<h>> : h \in RawChars },
        c \in RawChars,
        n \in {0, 1, MaxSearchLen - 1, MaxSearchLen, MaxPad} }

InitNorm ==
    /\ df = <<>>
    /\ idx = 0
    /\ hiragana_index = EmptyIndex
    /\ katakana_index = EmptyIndex
    /\ pc = "norm_in"
    /\ search_string \in NormInputs
    /\ include_katakana \in BOOLEAN
    /\ selected_prefecture_codes = {}
    /\ normalized_search = <<>>
    /\ renormalized = <<>>
    /\ path = "none"
    /\ result_rows = <<>>
    /\ outcome = "none"
    /\ MainNotStarted

Normalize ==
    /\ pc = "norm_in"
    /\ normalized_search' = normalize_search_string(search_string, include_katakana)
    /\ outcome' = "returned"
    /\ pc' = "norm_out"
    /\ UNCHANGED <<df, idx, hiragana_index, katakana_index, search_string,
                   include_katakana, selected_prefecture_codes, renormalized,
                   path, result_rows, mainvars>>

\* the function applied to its own result
Renormalize ==
    /\ pc = "norm_out"
    /\ renormalized' = normalize_search_string(normalized_search, include_katakana)
    /\ pc' = "norm_twice"
    /\ UNCHANGED <<df, idx, hiragana_index, katakana_index, search_string,
                   include_katakana, selected_prefecture_codes,
                   normalized_search, path, result_rows, outcome, mainvars>>

NextNorm == Normalize \/ Renormalize

SpecNorm == InitNorm /\ [][NextNorm]_vars

(***************************************************************************)
(* save_index_to_files, load_precomputed_index and the start-up of main    *)
(***************************************************************************)
\* json.dump: the integer keys of the outer dictionary become strings
json_dump(index) ==
    [k \in { ToString(p) : p \in DOMAIN index } |->
        index[CHOOSE p \in DOMAIN index : ToString(p) = k]]

\* json.load, then {int(k): v for k, v in index.items()}
json_load_int_keys(obj) ==
    LET int(k) == CHOOSE n \in 0..PosRange : ToString(n) = k
    IN  [p \in { int(k) : k \in DOMAIN obj } |-> obj[ToString(p)]]

\* df.to_csv(..., index=False): the columns without the index labels
to_csv(frame) ==
    [i \in 1..Len(frame) |-> [station_name |-> frame[i].station_name,
                              pref_cd |-> frame[i].pref_cd]]

\* pd.read_csv: the rows labelled 0 .. n-1
read_csv(rows) ==
    [i \in 1..Len(rows) |-> [idx |-> i - 1,
                             station_name |-> rows[i].station_name,
                             pref_cd |-> rows[i].pref_cd]]

\* a plausible slip: no try/except round the reads
load_without_except(fs) ==
    IF \E f \in DOMAIN fs : fs[f].state = "absent"
    THEN [hiragana_index |-> None, katakana_index |-> None, df |-> None,
          raised |-> FALSE]
    ELSE IF \E f \in DOMAIN fs : fs[f].state = "unreadable"
    THEN [hiragana_index |-> None, katakana_index |-> None, df |-> None,
          raised |-> TRUE]
    ELSE [hiragana_index |-> Some(json_load_int_keys(fs[hiragana_file].content)),
          katakana_index |-> Some(json_load_int_keys(fs[katakana_file].content)),
          df |-> Some(read_csv(fs[data_file].content)),
          raised |-> FALSE]

load_precomputed_index(fs) ==
    IF \E f \in DOMAIN fs : fs[f].state = "absent"
    THEN \* return None, None, None
         [hiragana_index |-> None, katakana_index |-> None, df |-> None,
          raised |-> FALSE]
    ELSE IF \E f \in DOMAIN fs : fs[f].state = "unreadable"
    THEN \* except Exception: st.warning, return None, None, None
         [hiragana_index |-> None, katakana_index |-> None, df |-> None,
          raised |-> FALSE]
    ELSE [hiragana_index |-> Some(json_load_int_keys(fs[hiragana_file].content)),
          katakana_index |-> Some(json_load_int_keys(fs[katakana_file].content)),
          df |-> Some(read_csv(fs[data_file].content)),
          raised |-> FALSE]

\* what st.file_uploader can hand over: a readable corpus, an unreadable file
Uploads ==
    { [readable |-> TRUE,
       rows |-> <<[station_name |-> <<ka_a, hi_a>>, pref_cd |-> 27]>>],
      [readable |-> FALSE, rows |-> <<>>] }

\* load_station_data: the uploaded file or station20250604free.csv (default_frame);
\* an empty frame when the read fails
load_station_data(csv_file, default_frame) ==
    IF csv_file # None
    THEN IF csv_file[1].readable THEN read_csv(csv_file[1].rows) ELSE <<>>
    ELSE default_frame

\* if use_fast_search and uploaded_file is None (data loading)
data_from_index(use_fast, uploaded) == use_fast /\ uploaded = None

\* a plausible slip: the upload forgotten in the branch of the search
search_uses_index_despite_upload(use_fast, uploaded) == use_fast

\* if use_fast_search and uploaded_file is None (search)
search_uses_index(use_fast, uploaded) == use_fast /\ uploaded = None

MainCorpora ==
    UNION { { [i \in 1..n |-> [idx |-> i - 1,
                              station_name |-> names[i],
                              pref_cd |-> prefs[i]]] :
              names \in [1..n -> StationNames], prefs \in [1..n -> PrefCodes] } :
            n \in 0..MainRecords }

MainSearchStrings == UNION { [1..n -> QueryChars] : n \in 0..MainQueryLen }

\* create_index.py is about to run, or was never run
InitMain ==
    /\ df \in MainCorpora
    /\ idx = 0
    /\ hiragana_index = EmptyIndex
    /\ katakana_index = EmptyIndex
    /\ pc \in {"build", "saved"}
    /\ search_string = <<>>
    /\ include_katakana = FALSE
    /\ selected_prefecture_codes = {}
    /\ normalized_search = <<>>
    /\ renormalized = <<>>
    /\ path = "none"
    /\ result_rows = <<>>
    /\ outcome = "none"
    /\ MainNotStarted

\* save_index_to_files
SaveIndex ==
    /\ pc = "ready"
    /\ files' = [f \in DOMAIN files |->
                    [state |-> "ok",
                     content |-> CASE f = hiragana_file -> json_dump(hiragana_index)
                                   [] f = katakana_file -> json_dump(katakana_index)
                                   [] f = data_file -> to_csv(df)]]
    /\ pc' = "saved"
    /\ UNCHANGED <<df, idx, hiragana_index, katakana_index, search_string,
                   include_katakana, selected_prefecture_codes,
                   normalized_search, renormalized, path, result_rows, outcome,
                   loaded_hiragana_index, loaded_katakana_index, indexed_df,
                   use_fast_search, uploaded_file, main_df>>

\* the environment: one of the written files is removed or made unreadable
LoseArtifact ==
    /\ pc = "saved"
    /\ \A f \in DOMAIN files : files[f].state = "ok"
    /\ \E f \in DOMAIN files, fault \in {"absent", "unreadable"} :
          files' = [files EXCEPT ![f].state = fault]
    /\ UNCHANGED <<df, idx, hiragana_index, katakana_index, pc, search_string,
                   include_katakana, selected_prefecture_codes,
                   normalized_search, renormalized, path, result_rows, outcome,
                   loaded_hiragana_index, loaded_katakana_index, indexed_df,
                   use_fast_search, uploaded_file, main_df>>

\* main: hiragana_index, katakana_index, indexed_df = load_precomputed_index()
LoadIndex ==
    /\ pc = "saved"
    /\ LET r == load_precomputed_index(files)
       IN  IF r.raised
           THEN /\ pc' = "crashed"
                /\ outcome' = "raised"
                /\ UNCHANGED <<loaded_hiragana_index, loaded_katakana_index,
                               indexed_df, use_fast_search>>
           ELSE /\ loaded_hiragana_index' = r.hiragana_index
                /\ loaded_katakana_index' = r.katakana_index
                /\ indexed_df' = r.df
                /\ use_fast_search' = (r.hiragana_index # None)
                /\ pc' = "loaded"
                /\ UNCHANGED outcome
    /\ UNCHANGED <<df, idx, hiragana_index, katakana_index, search_string,
                   include_katakana, selected_prefecture_codes,
                   normalized_search, renormalized, path, result_rows, files,
                   uploaded_file, main_df>>

\* main: the upload widget and the loading of the frame; return when it is empty
LoadData ==
    /\ pc = "loaded"
    /\ \E up \in {None} \cup { Some(u) : u \in Uploads } :
          /\ uploaded_file' = up
          /\ LET frame == IF data_from_index(use_fast_search, up)
                          THEN indexed_df[1]
                          ELSE load_station_data(up, df)
             IN  /\ main_df' = frame
                 /\ pc' = IF frame = <<>> THEN "stopped" ELSE "data"
    /\ UNCHANGED <<df, idx, hiragana_index, katakana_index, search_string,
                   include_katakana, selected_prefecture_codes,
                   normalized_search, renormalized, path, result_rows, outcome,
                   files, loaded_hiragana_index, loaded_katakana_index,
                   indexed_df, use_fast_search>>

\* main: results = search_and_analyze_fast(...)
MainSearchFast ==
    /\ pc = "data"
    /\ search_uses_index(use_fast_search, uploaded_file)
    /\ \E text \in MainSearchStrings, codes \in Selections, inc \in BOOLEAN :
          /\ search_string' = text
          /\ selected_prefecture_codes' = codes
          /\ include_katakana' = inc
          /\ normalized_search' = normalize_search_string(text, inc)
          /\ result_rows' = search_and_analyze_fast(main_df, text, codes,
                                                    loaded_hiragana_index[1],
                                                    loaded_katakana_index[1], inc)
    /\ path' = "fast"
    /\ outcome' = "returned"
    /\ pc' = "done"
    /\ UNCHANGED <<df, idx, hiragana_index, katakana_index, renormalized,
                   mainvars>>

\* main: results = search_and_analyze(...)
MainSearchScan ==
    /\ pc = "data"
    /\ ~search_uses_index(use_fast_search, uploaded_file)
    /\ \E text \in MainSearchStrings, codes \in Selections, inc \in BOOLEAN :
          /\ search_string' = text
          /\ selected_prefecture_codes' = codes
          /\ include_katakana' = inc
          /\ normalized_search' = normalize_search_string(text, inc)
          /\ result_rows' = search_and_analyze(main_df, text, codes, inc)
    /\ path' = "scan"
    /\ outcome' = "returned"
    /\ pc' = "done"
    /\ UNCHANGED <<df, idx, hiragana_index, katakana_index, renormalized,
                   mainvars>>

NextMain ==
    \/ IndexRecord \/ FinishIndex \/ SaveIndex \/ LoseArtifact
    \/ LoadIndex \/ LoadData \/ MainSearchFast \/ MainSearchScan

SpecMain == InitMain /\ [][NextMain]_vars

(***************************************************************************)
(* Vocabulary of the properties                                            *)
(***************************************************************************)
Done == pc = "done"

\* a character of a name as the active mode compares it
ModeChar(c) == IF include_katakana THEN c ELSE K2H(c)

\* the rows of the corpus whose name, under the active mode, has c at offset p
FullMatches(p, c) ==
    { i \in 0..(Len(df) - 1) :
        /\ p < Len(df[i + 1].station_name)
        /\ ModeChar(df[i + 1].station_name[p + 1]) = c }

\* every character of the normalized query has a match at offset p
EveryCharMatches(p) ==
    \A ci \in 1..Len(normalized_search) : FullMatches(p, normalized_search[ci]) # {}

\* the offsets (0-based) the result holds rows for
EmittedOffsets == { result_rows[k].char_position - 1 : k \in DOMAIN result_rows }

\* (offset, query character index, row id) of every emitted row
EmittedTriples ==
    { <<result_rows[k].char_position - 1, result_rows[k].char_index,
        result_rows[k].idx>> : k \in DOMAIN result_rows }

\* the rows emitted for one offset and one query character, in order
RowsFor(p, ci) ==
    SelectSeq(result_rows, LAMBDA r : r.char_position = p + 1 /\ r.char_index = ci)

InPrioritySet(r) ==
    /\ selected_prefecture_codes # {}
    /\ df[r.idx + 1].pref_cd \in selected_prefecture_codes

Bucket(index, pos, c) ==
    IF pos \in DOMAIN index /\ c \in DOMAIN index[pos] THEN index[pos][c] ELSE <<>>

SeqToSet(s) == { s[k] : k \in DOMAIN s }

(***************************************************************************)
(* C1  Index-scan equivalence: once create_station_index has walked the    *)
(* corpus, the bucket at (offset, char) of the folded index holds exactly  *)
(* the ids of the rows whose kata2hira-folded name has char at that        *)
(* offset, and the bucket of the preserved index exactly those whose name  *)
(* as written has it; an offset past the end of a name holds no entry for  *)
(* that row.                                                               *)
(***************************************************************************)
\* none extra: every id of every bucket of index names a row whose name, as
\* the mode reads it, has the bucket's character at the bucket's offset
NoneExtra(index, fold) ==
    \A pos \in DOMAIN index :
        \A c \in DOMAIN index[pos] :
            \A k \in DOMAIN index[pos][c] :
                LET i == index[pos][c][k]
                IN  /\ i \in 0..(Len(df) - 1)
                    /\ pos < Len(df[i + 1].station_name)
                    /\ c = (IF fold THEN K2H(df[i + 1].station_name[pos + 1])
                            ELSE df[i + 1].station_name[pos + 1])

\* none missing: every row is in the bucket of each offset of its name
NoneMissing(index, fold) ==
    \A i \in 0..(Len(df) - 1) :
        \A pos \in 0..(Len(df[i + 1].station_name) - 1) :
            LET c == IF fold THEN K2H(df[i + 1].station_name[pos + 1])
                     ELSE df[i + 1].station_name[pos + 1]
            IN  i \in SeqToSet(Bucket(index, pos, c))

IndexScanEquivalence ==
    pc # "build" =>
        /\ NoneExtra(hiragana_index, TRUE)
        /\ NoneMissing(hiragana_index, TRUE)
        /\ NoneExtra(katakana_index, FALSE)
        /\ NoneMissing(katakana_index, FALSE)

\* a built index where folding merged a katakana and a hiragana name into one
\* bucket that the preserved index keeps apart
IndexScanWitness ==
    /\ pc = "ready"
    /\ Len(Bucket(hiragana_index, 0, hi_a)) = 2
    /\ Len(Bucket(katakana_index, 0, hi_a)) = 1
    /\ Len(Bucket(katakana_index, 0, ka_a)) = 1

(***************************************************************************)
(* C2  Pipeline invariant: every emitted row with char_position p, made    *)
(* for query character q, names a station whose name has at offset p - 1   *)
(* a character equal to q under the active mode (after kata2hira in folded *)
(* mode, as written in preserved mode).                                    *)
(***************************************************************************)
PipelineInvariant ==
    Done =>
        \A k \in DOMAIN result_rows :
            LET r == result_rows[k]
            IN  /\ r.char_index < Len(normalized_search)
                /\ r.station_name = df[r.idx + 1].station_name
                /\ r.char_position >= 1
                /\ r.char_position <= Len(r.station_name)
                /\ ModeChar(r.station_name[r.char_position]) =
                       normalized_search[r.char_index + 1]

\* a preserved-mode search that returned rows although some name of the
\* corpus matches the query character only after folding
PipelineWitness ==
    /\ Done
    /\ include_katakana
    /\ \E k \in DOMAIN result_rows, i \in DOMAIN df :
          LET p == result_rows[k].char_position
              q == normalized_search[result_rows[k].char_index + 1]
          IN  /\ p <= Len(df[i].station_name)
              /\ df[i].station_name[p] # q
              /\ K2H(df[i].station_name[p]) = K2H(q)

(***************************************************************************)
(* C3  Priority precedence: in the rows emitted for one offset and one     *)
(* query character, by either path, every row of the priority set comes    *)
(* before every fallback row, and no row id appears twice.                 *)
(***************************************************************************)
PriorityPrecedence ==
    Done =>
        \A i, j \in DOMAIN result_rows :
            (/\ i < j
             /\ result_rows[i].char_position = result_rows[j].char_position
             /\ result_rows[i].char_index = result_rows[j].char_index)
            => /\ ~(~InPrioritySet(result_rows[i]) /\ InPrioritySet(result_rows[j]))
               /\ result_rows[i].idx # result_rows[j].idx

(***************************************************************************)
(* C4  No partial offsets: when some character of the query has no match   *)
(* at offset p, no row with char_position p + 1 is emitted, not even for   *)
(* the characters that matched before the failing one.                     *)
(***************************************************************************)
NoPartialOffsets ==
    Done => LET emitted == EmittedOffsets
            IN  \A p \in 0..19 : ~EveryCharMatches(p) => p \notin emitted

\* the first character of a two-character query matches at offset 0, the
\* second does not
NoPartialWitness ==
    /\ Done
    /\ Len(normalized_search) = 2
    /\ FullMatches(0, normalized_search[1]) # {}
    /\ FullMatches(0, normalized_search[2]) = {}

(***************************************************************************)
(* C5  Row order: the rows are ordered by offset ascending, then by query  *)
(* character index ascending, then in the order the resolver listed the    *)
(* matches of that character.                                              *)
(***************************************************************************)
\* the list the resolver of the path in use makes for one offset and character
ResolverList(p, ci) ==
    LET c == normalized_search[ci + 1]
    IN  IF path = "fast"
        THEN find_stations_by_index(
                 IF include_katakana THEN katakana_index ELSE hiragana_index,
                 ModeChar(c), p, df)
        ELSE char_stations_with_priority(
                 df,
                 IF selected_prefecture_codes # {}
                 THEN SelectSeq(df, LAMBDA row :
                                      row.pref_cd \in selected_prefecture_codes)
                 ELSE <<>>,
                 c, p, include_katakana)

RowOrder ==
    Done =>
        /\ \A k \in 1..(Len(result_rows) - 1) :
              \/ result_rows[k].char_position < result_rows[k + 1].char_position
              \/ /\ result_rows[k].char_position = result_rows[k + 1].char_position
                 /\ result_rows[k].char_index <= result_rows[k + 1].char_index
        /\ \A p \in EmittedOffsets :
              \A ci \in 0..(Len(normalized_search) - 1) :
                  LET rows == RowsFor(p, ci)
                      list == ResolverList(p, ci)
                  IN  /\ Len(rows) = Len(list)
                      /\ \A k \in DOMAIN rows : rows[k].idx = list[k].idx

\* two offsets, two query characters and a character with two matches
RowOrderWitness ==
    /\ Done
    /\ Cardinality(EmittedOffsets) >= 2
    /\ Len(normalized_search) = 2
    /\ \E p \in EmittedOffsets : Len(RowsFor(p, 1)) >= 2

(***************************************************************************)
(* C6  Completeness of matches: at every offset the result holds rows for, *)
(* and for every query character, the rows emitted are those of every row  *)
(* of the corpus whose name under the active mode has that character at    *)
(* that offset, whatever the region selection.                             *)
(***************************************************************************)
MatchCompleteness ==
    Done =>
        LET triples == EmittedTriples
        IN  \A p \in EmittedOffsets :
                \A ci \in 0..(Len(normalized_search) - 1) :
                    { i \in 0..(Len(df) - 1) : <<p, ci, i>> \in triples } =
                        FullMatches(p, normalized_search[ci + 1])

\* a scan with a selection, where one character is matched both by a row of
\* the selection and by a row outside it
MatchCompletenessWitness ==
    /\ Done
    /\ path = "scan"
    /\ \E i, j \in DOMAIN result_rows :
          /\ result_rows[i].char_position = result_rows[j].char_position
          /\ result_rows[i].char_index = result_rows[j].char_index
          /\ InPrioritySet(result_rows[i])
          /\ ~InPrioritySet(result_rows[j])

(***************************************************************************)
(* C7  Every offset 0 .. 19 is judged on its own: for a non-empty query    *)
(* the offsets with rows are exactly the offsets of 0 .. 19 at which every *)
(* query character has a match, whatever happened at smaller offsets, and  *)
(* no offset outside 0 .. 19 is accepted.                                  *)
(***************************************************************************)
OffsetsIndependent ==
    (Done /\ normalized_search # <<>>) =>
        EmittedOffsets = { p \in 0..19 : EveryCharMatches(p) }

\* offset 0 is rejected, offset 19 is accepted, and offset 20 would match
OffsetsWitness ==
    /\ Done
    /\ normalized_search # <<>>
    /\ 0 \notin EmittedOffsets
    /\ 19 \in EmittedOffsets
    /\ EveryCharMatches(20)

(***************************************************************************)
(* C8  Provenance: a row is tagged as of the selected region exactly when  *)
(* the selection is not empty and holds the region code of the row's       *)
(* record, else as nationwide; in the scan path a row comes from the pass  *)
(* over the selection exactly when it is tagged as of the selected region. *)
(***************************************************************************)
ProvenanceRule ==
    Done =>
        \A k \in DOMAIN result_rows :
            LET r == result_rows[k]
            IN  /\ r.search_scope = "selected_region" <=> InPrioritySet(r)
                /\ r.search_scope \in {"selected_region", "nationwide"}
                /\ path = "scan" =>
                       (r.from_pass = "selected" <=> r.search_scope = "selected_region")

\* a scan whose result holds a row of each tag
ProvenanceWitness ==
    /\ Done
    /\ path = "scan"
    /\ \E i, j \in DOMAIN result_rows :
          /\ result_rows[i].search_scope = "selected_region"
          /\ result_rows[j].search_scope = "nationwide"

(***************************************************************************)
(* C9  An empty normalized query, an empty corpus and a query no offset of *)
(* 0 .. 19 accepts are normal outcomes: the search returns an empty result *)
(* and raises nothing.                                                     *)
(***************************************************************************)
EmptyOutcomes ==
    (/\ Done
     /\ \/ normalized_search = <<>>
        \/ df = <<>>
        \/ \A p \in 0..19 : ~EveryCharMatches(p))
    => (result_rows = <<>> /\ outcome = "returned")

\* a non-empty query on a non-empty corpus, accepted at no offset although
\* one of its characters has a match
EmptyOutcomesWitness ==
    /\ Done
    /\ df # <<>>
    /\ normalized_search # <<>>
    /\ \A p \in 0..19 : ~EveryCharMatches(p)
    /\ \E p \in 0..19, ci \in 1..Len(normalized_search) :
          FullMatches(p, normalized_search[ci]) # {}
    /\ result_rows = <<>>

(***************************************************************************)
(* C10  Truncation: normalize_search_string(s, mode) has at most 20        *)
(* characters and is the first 20 permitted characters of s (folded by     *)
(* kata2hira, then filtered, in folded mode; filtered in preserved mode).  *)
(***************************************************************************)
\* the character s[i] turns into, and whether the mode keeps it
Turned(s, i) == IF include_katakana THEN s[i] ELSE K2H(s[i])
Permitted(s, i) ==
    IF include_katakana THEN s[i] \in {hi_a, ka_a, ka_ke, kanji}
    ELSE K2H(s[i]) \in {hi_a, kanji}
\* how many of the first i characters of s the mode keeps
PermittedUpTo(s, i) == Cardinality({ j \in 1..i : Permitted(s, j) })

TruncationInvariant ==
    pc = "norm_out" =>
        LET s == search_string
            total == PermittedUpTo(s, Len(s))
        IN  /\ Len(normalized_search) <= 20
            /\ Len(normalized_search) = (IF total < 20 THEN total ELSE 20)
            /\ \A i \in 1..Len(s) :
                  (Permitted(s, i) /\ PermittedUpTo(s, i) <= 20) =>
                      normalized_search[PermittedUpTo(s, i)] = Turned(s, i)
            /\ outcome = "returned"

\* an input of more than 20 permitted characters behind a character the
\* mode strips
TruncationWitness ==
    /\ pc = "norm_out"
    /\ Len(search_string) > 20
    /\ ~Permitted(search_string, 1)
    /\ Len(normalized_search) = 20

(***************************************************************************)
(* C11  Idempotence: normalizing an already normalized string in the same  *)
(* mode gives it back unchanged,                                           *)
(* normalize(normalize(s, f), f) = normalize(s, f).                        *)
(***************************************************************************)
IdempotentNormalization ==
    pc = "norm_twice" => renormalized = normalized_search

\* the first pass folded, stripped and cut its input; the second pass ran
IdempotentWitness ==
    /\ pc = "norm_twice"
    /\ ~include_katakana
    /\ Len(search_string) > MaxSearchLen
    /\ search_string[1] = ascii
    /\ search_string[2] = ka_a
    /\ Len(normalized_search) = MaxSearchLen
    /\ renormalized # search_string

(***************************************************************************)
(* C12  Mode agreement, as the code has it: for a query whose folded and   *)
(* preserved normalizations are the same string, every match of the        *)
(* preserved mode is a match of the folded mode, and at an offset where no *)
(* name of the corpus has a character kata2hira changes the two modes      *)
(* accept alike and return the same records for each query character.      *)
(***************************************************************************)
SameInBothModes ==
    normalize_search_string(search_string, TRUE) =
        normalize_search_string(search_string, FALSE)

\* the search of the state run again on the same path in the given mode
RowsInMode(inc) ==
    IF inc = include_katakana THEN result_rows
    ELSE IF path = "fast"
         THEN search_and_analyze_fast(df, search_string, selected_prefecture_codes,
                                      hiragana_index, katakana_index, inc)
         ELSE search_and_analyze(df, search_string, selected_prefecture_codes, inc)

TriplesOf(rows) ==
    { <<rows[k].char_position - 1, rows[k].char_index, rows[k].idx>> :
          k \in DOMAIN rows }

\* no name has at offset p a character that kata2hira changes
FoldInvariantAt(p) ==
    \A i \in 1..Len(df) :
        p < Len(df[i].station_name) =>
            K2H(df[i].station_name[p + 1]) = df[i].station_name[p + 1]

ModeAgreementWhereUnfolded ==
    (Done /\ SameInBothModes) =>
        LET folded == TriplesOf(RowsInMode(FALSE))
            preserved == TriplesOf(RowsInMode(TRUE))
        IN  /\ preserved \subseteq folded
            /\ \A p \in 0..(PosRange - 1) :
                  FoldInvariantAt(p) =>
                      { t \in folded : t[1] = p } = { t \in preserved : t[1] = p }

\* a shared query matched at an offset free of katakana in both modes, and
\* at an offset holding a katakana character in the folded mode only
ModeAgreementWitness ==
    /\ Done /\ SameInBothModes
    /\ LET folded == TriplesOf(RowsInMode(FALSE))
           preserved == TriplesOf(RowsInMode(TRUE))
       IN  /\ \E t \in preserved : FoldInvariantAt(t[1])
           /\ \E t \in folded : t \notin preserved

\* C12 as stated: for a query whose folded and preserved normalizations are
\* the same string, both modes accept the same offsets and return the same
\* records for each query character.
ModeAgreement ==
    (Done /\ SameInBothModes) =>
        TriplesOf(RowsInMode(FALSE)) = TriplesOf(RowsInMode(TRUE))

(***************************************************************************)
(* C13  What the index is built from, as the code has it: each record is   *)
(* filed under the characters of its name folded by kata2hira (folded      *)
(* index) or as written (preserved index), nothing stripped and nothing    *)
(* cut: it is under c at offset i exactly when c is the i-th character of  *)
(* that name, so a character the search box would strip keeps its offset.  *)
(***************************************************************************)
\* the (offset, character) pairs the index files row id under
OccupiedBy(index, id) ==
    { slot \in UNION { { <<pos, c>> : c \in DOMAIN index[pos] } :
                              pos \in DOMAIN index } :
        \E k \in DOMAIN index[slot[1]][slot[2]] :
            index[slot[1]][slot[2]][k] = id }

\* the (offset, character) pairs of a string
PairsOf(name) == { <<p - 1, name[p]>> : p \in 1..Len(name) }

IndexFromWholeName ==
    pc = "ready" =>
        \A i \in 1..Len(df) :
            /\ OccupiedBy(hiragana_index, i - 1) = PairsOf(kata2hira(df[i].station_name))
            /\ OccupiedBy(katakana_index, i - 1) = PairsOf(df[i].station_name)

\* a name whose first character folds to one the search box strips: it is
\* filed at offset 0 under that character and the next one stays at offset 1
IndexFromWholeNameWitness ==
    /\ pc = "ready"
    /\ \E i \in 1..Len(df) :
          /\ df[i].station_name = LongName
          /\ <<0, hi_ke>> \in OccupiedBy(hiragana_index, i - 1)
          /\ <<1, kanji>> \in OccupiedBy(hiragana_index, i - 1)
          /\ <<PosRange, hi_a>> \in OccupiedBy(hiragana_index, i - 1)

\* the name as the Normalizer's rules leave it, without the cut
NormalizedName(name, inc) ==
    IF inc THEN re_sub_keep(HiraganaKatakanaKanji, name)
    ELSE re_sub_keep(HiraganaKanji, kata2hira(name))

\* C13 as stated: each record is filed under the characters of its name
\* normalized by the Normalizer's rules (folded, non-permitted characters
\* stripped, not cut), so a non-permitted character occupies no offset.
IndexFromNormalizedName ==
    pc = "ready" =>
        \A i \in 1..Len(df) :
            /\ OccupiedBy(hiragana_index, i - 1) =
                  PairsOf(NormalizedName(df[i].station_name, FALSE))
            /\ OccupiedBy(katakana_index, i - 1) =
                  PairsOf(NormalizedName(df[i].station_name, TRUE))

(***************************************************************************)
(* C14  Records sharing name and region, as the code has it: in the scan   *)
(* path (find_character_positions_cross_with_priority) every record that   *)
(* shares station name and region code with an emitted record is emitted   *)
(* too, each exactly once for that offset and query character; the         *)
(* (name, region) key only keeps the whole-corpus pass from repeating the  *)
(* selection pass.                                                         *)
(***************************************************************************)
\* row j of the corpus has the name and region of the record of emitted row r
SharesKey(j, r) ==
    /\ df[j].station_name = df[r.idx + 1].station_name
    /\ df[j].pref_cd = df[r.idx + 1].pref_cd

\* how often corpus row j is emitted for the offset and character of r
TimesEmittedWith(j, r) ==
    Cardinality({ k \in DOMAIN result_rows :
                    /\ result_rows[k].idx = j - 1
                    /\ result_rows[k].char_position = r.char_position
                    /\ result_rows[k].char_index = r.char_index })

SharedKeyBothKept ==
    (Done /\ path = "scan") =>
        \A k \in DOMAIN result_rows : \A j \in 1..Len(df) :
            SharesKey(j, result_rows[k]) => TimesEmittedWith(j, result_rows[k]) = 1

\* two records with one name and one region, matched under a selection
SharedKeyWitness ==
    /\ Done /\ path = "scan"
    /\ selected_prefecture_codes # {}
    /\ \E k \in DOMAIN result_rows : \E j \in 1..Len(df) :
          /\ j - 1 # result_rows[k].idx
          /\ SharesKey(j, result_rows[k])
          /\ TimesEmittedWith(j, result_rows[k]) = 1

\* C14 as stated: of two distinct matching records that share station name
\* and region code only one is kept for an offset and query character.
SharedKeyOneKept ==
    (Done /\ path = "scan") =>
        \A k1, k2 \in DOMAIN result_rows :
            (/\ result_rows[k1].char_position = result_rows[k2].char_position
             /\ result_rows[k1].char_index = result_rows[k2].char_index
             /\ SharesKey(result_rows[k1].idx + 1, result_rows[k2]))
                => k1 = k2

(***************************************************************************)
(* C15  IndexMissing recovery: when one of the persisted files is absent   *)
(* or unreadable, load_precomputed_index reports the index absent without  *)
(* raising, and a later search over the default corpus still completes,    *)
(* computed from the corpus, with the matches the index would have given.  *)
(***************************************************************************)
ArtifactFault == \E f \in DOMAIN files : files[f].state # "ok"

AfterLoad == pc \in {"loaded", "data", "stopped", "done"}

\* the index create_station_index builds for the first n rows of a frame
RECURSIVE BuiltIndex(_, _, _)
BuiltIndex(frame, n, fold) ==
    IF n = 0 THEN EmptyIndex
    ELSE EnumerateInto(BuiltIndex(frame, n - 1, fold),
                       IF fold THEN hiragana_name(frame[n].station_name)
                       ELSE frame[n].station_name,
                       0, frame[n].idx)

\* the rows the index path gives with the index of the corpus present
RowsWithIndexPresent ==
    search_and_analyze_fast(df, search_string, selected_prefecture_codes,
                            BuiltIndex(df, Len(df), TRUE),
                            BuiltIndex(df, Len(df), FALSE), include_katakana)

Columns(rows) ==
    [k \in DOMAIN rows |->
        [station_name |-> rows[k].station_name,
         prefecture |-> rows[k].prefecture,
         search_char |-> rows[k].search_char,
         char_position |-> rows[k].char_position,
         search_scope |-> rows[k].search_scope]]

\* the search of the state run on the other path
RowsOfOtherPath ==
    IF path = "fast"
    THEN search_and_analyze(df, search_string, selected_prefecture_codes,
                            include_katakana)
    ELSE search_and_analyze_fast(df, search_string, selected_prefecture_codes,
                                 hiragana_index, katakana_index, include_katakana)

PathsAgree ==
    Done => Columns(result_rows) = Columns(RowsOfOtherPath)

(***************************************************************************)
(* C17  The index and its records stay together: main runs                 *)
(* search_and_analyze_fast only when the index was loaded and no file is   *)
(* uploaded, and then over the frame loaded with the index, which is the   *)
(* frame the index was built from; with an uploaded file the scan path     *)
(* runs over the uploaded frame.                                           *)
(***************************************************************************)
IndexWithOwnRecords ==
    /\ (Done /\ path = "fast") =>
          /\ use_fast_search
          /\ uploaded_file = None
          /\ indexed_df # None /\ loaded_hiragana_index # None
          /\ loaded_katakana_index # None
          /\ main_df = indexed_df[1]
          /\ indexed_df[1] = read_csv(files[data_file].content)
          /\ loaded_hiragana_index[1] = BuiltIndex(main_df, Len(main_df), TRUE)
          /\ loaded_katakana_index[1] = BuiltIndex(main_df, Len(main_df), FALSE)
    /\ (Done /\ uploaded_file # None) =>
          /\ path = "scan"
          /\ main_df = load_station_data(uploaded_file, df)

\* the index was loaded, a file was uploaded, and the scan found rows in it
IndexWithOwnRecordsWitness ==
    /\ Done
    /\ use_fast_search
    /\ uploaded_file # None
    /\ path = "scan"
    /\ main_df # indexed_df[1]
    /\ result_rows # <<>>
====
